---- MODULE Spec2Model ----
(***************************************************************************)
(* The type-ahead suggestion widget of static/js/app.js: one text input,   *)
(* one suggestion list, a debounce timer and a cancellable fetch.          *)
(*                                                                         *)
(* Strings are sequences of one-character strings, so that trim,           *)
(* escapeHtml and the markup parser are computed character by character.   *)
(* The host runs one event handler to completion before the next, so each  *)
(* handler is one action; the two awaits of fetchSuggestions are the only  *)
(* suspension points and split the debounced callback into three actions.  *)
(***************************************************************************)
EXTENDS Integers, Sequences, FiniteSets, TLC

\* ------------------------------------------------------------------ bounds
\* setTimeout calls in a behaviour
MaxTimers == 2
\* fetch calls in a behaviour
MaxRequests == 2
\* longest list of books a response carries
MaxBooks == 3
\* how far the clock moves in one Tick step, in ms
TickMs == 90

\* longest suggestion string rendered on its own
MaxStrLen == 3
\* longest list rendered
MaxRenderLen == 11

\* ------------------------------------------------------- program constants
\* url.searchParams.set("limit", "10")
RequestLimit == 10
\* the delay handed to window.setTimeout
DebounceMs == 180
\* query.length < 2 clears and returns
MinQueryLen == 2
\* let activeIndex = -1
NoSelection == -1

VARIABLES
    inputValue,     \* input.value
    rows,           \* the <li> children of suggestionsList, in order: their markup
    shown,          \* suggestionsList.classList contains "show"
    activeRows,     \* positions of the <li> whose classList contains "active"
    activeIndex,    \* activeIndex
    suggestionList, \* the books array the rows were rendered from (empty when cleared)
    debounceTimer,  \* debounceTimer: the id setTimeout last returned, 0 for null
    controller,     \* controller: the id of the request it belongs to, 0 for null
    timers,         \* the host's armed timers: [id, query, left]
    requests,       \* fetches whose promise chain has not settled: [id, query, aborted, phase]
    nextTimerId,    \* the id the next setTimeout returns
    nextReqId,      \* the id of the next request issued
    sinceLongInput, \* ms since the last input event that armed a timer, saturating at DebounceMs
    lastQuery,      \* const query of the most recent input event (empty before the first)
    prevented,      \* whether the most recent keydown event had preventDefault() called
    lastEffect,     \* what last wrote the list since the most recent input event: a
                    \* handler that emptied the open dropdown, or the response to a
                    \* query (kind "none" if nothing)
    uncaught        \* whether an exception ever escaped the debounced callback

vars == <<inputValue, rows, shown, activeRows, activeIndex, suggestionList, debounceTimer,
          controller, timers, requests, nextTimerId, nextReqId, sinceLongInput, lastQuery,
          prevented, lastEffect, uncaught>>

dom == <<rows, shown, activeRows, activeIndex, suggestionList>>
net == <<debounceTimer, controller, timers, requests, nextTimerId, nextReqId>>

\* ------------------------------------------------------------------ strings
Max(a, b) == IF a >= b THEN a ELSE b
Min(a, b) == IF a <= b THEN a ELSE b

\* The characters String.prototype.trim removes (the model's inputs use the space).
IsSpace(c) == c = " "

RECURSIVE TrimStart(_)
TrimStart(s) ==
    IF s # <<>> /\ IsSpace(Head(s)) THEN TrimStart(Tail(s)) ELSE s

RECURSIVE TrimEnd(_)
TrimEnd(s) ==
    IF s # <<>> /\ IsSpace(s[Len(s)]) THEN TrimEnd(SubSeq(s, 1, Len(s) - 1)) ELSE s

\* only the leading white space is removed
TrimStartOnly(s) == TrimStart(s)

\* input.value.trim()
Trim(s) == TrimEnd(TrimStart(s))

\* value.replace(/c/g, ent): every occurrence of the character c becomes ent
RECURSIVE ReplaceAll(_, _, _)
ReplaceAll(s, c, ent) ==
    IF s = <<>> THEN <<>>
    ELSE (IF Head(s) = c THEN ent ELSE <<Head(s)>>) \o ReplaceAll(Tail(s), c, ent)

EntAmp  == <<"&", "a", "m", "p", ";">>
EntLt   == <<"&", "l", "t", ";">>
EntGt   == <<"&", "g", "t", ";">>
EntQuot == <<"&", "q", "u", "o", "t", ";">>
EntApos == <<"&", "#", "0", "3", "9", ";">>

\* four of the five replacements: the apostrophe is left as it is
escapeHtmlNoApos(value) ==
    ReplaceAll(ReplaceAll(ReplaceAll(ReplaceAll(value,
        "&", EntAmp), "<", EntLt), ">", EntGt), "\"", EntQuot)

\* the five replacements with the ampersand replaced last
escapeHtmlAmpLast(value) ==
    ReplaceAll(ReplaceAll(ReplaceAll(ReplaceAll(ReplaceAll(value,
        "<", EntLt), ">", EntGt), "\"", EntQuot), "'", EntApos), "&", EntAmp)

\* The five replacements, in the order the code chains them.
escapeHtml(value) ==
    ReplaceAll(ReplaceAll(ReplaceAll(ReplaceAll(ReplaceAll(value,
        "&", EntAmp), "<", EntLt), ">", EntGt), "\"", EntQuot), "'", EntApos)

IsPrefix(p, s) == Len(p) <= Len(s) /\ SubSeq(s, 1, Len(p)) = p

\* The text the markup parser produces for the character data of one <li>:
\* each character reference becomes its character, everything else is kept.
RECURSIVE TextContent(_)
TextContent(html) ==
    IF html = <<>> THEN <<>>
    ELSE IF IsPrefix(EntAmp, html)
        THEN <<"&">> \o TextContent(SubSeq(html, Len(EntAmp) + 1, Len(html)))
    ELSE IF IsPrefix(EntLt, html)
        THEN <<"<">> \o TextContent(SubSeq(html, Len(EntLt) + 1, Len(html)))
    ELSE IF IsPrefix(EntGt, html)
        THEN <<">">> \o TextContent(SubSeq(html, Len(EntGt) + 1, Len(html)))
    ELSE IF IsPrefix(EntQuot, html)
        THEN <<"\"">> \o TextContent(SubSeq(html, Len(EntQuot) + 1, Len(html)))
    ELSE IF IsPrefix(EntApos, html)
        THEN <<"'">> \o TextContent(SubSeq(html, Len(EntApos) + 1, Len(html)))
    ELSE <<Head(html)>> \o TextContent(Tail(html))

\* a % n as JavaScript computes it: the result takes the sign of the dividend
\* (-1 % 1 is -0, which ===, >= and indexing all treat as 0)
JsRem(a, n) == IF a >= 0 THEN a % n ELSE 0 - ((0 - a) % n)

\* --------------------------------------------------------------- JS values
Undefined == [type |-> "undefined"]
Null == [type |-> "null"]
Num(n) == [type |-> "number", n |-> n]
Str(s) == [type |-> "string", s |-> s]
Arr(items) == [type |-> "array", items |-> items]
\* an object whose books property is b (Undefined when the property is absent)
Obj(b) == [type |-> "object", books |-> b]

\* ToBoolean, as the || of payload.books || [] applies it
Truthy(v) ==
    CASE v.type = "undefined" -> FALSE
      [] v.type = "null" -> FALSE
      [] v.type = "number" -> v.n # 0
      [] v.type = "string" -> v.s # <<>>
      [] OTHER -> TRUE

IsArray(v) == v.type = "array"

\* How an await or a call completes: a value, or a thrown error with its name.
Return(v) == [kind |-> "return", value |-> v]
Throw(name) == [kind |-> "throw", name |-> name]

\* ------------------------------------------------------------------- inputs
SpecialChars == <<"&", "<", ">", "\"", "'">>

\* the k-th title the endpoint may return: "D", "D&", "D&<", ...
Title(k) == <<"D">> \o [i \in 1..(k - 1) |-> SpecialChars[((i - 1) % 5) + 1]]

BookList(n) == [k \in 1..n |-> Str(Title(k))]

\* what the user may leave in the input: trimmed lengths 0, 1, 2 and 3
InputValues == {<<>>, <<" ", "a", " ">>, <<"a", "b">>, <<" ", "a", "b", "c">>}

\* how the fetch promise settles when it is not aborted
FetchOutcomes == {"ok", "notok", "networkerror"}

Unparseable == [type |-> "unparseable"]

\* what response.json() may find in the body
Bodies ==
    {Unparseable, Null, Obj(Undefined), Obj(Null), Obj(Num(0)), Obj(Str(Title(1))),
     Obj(Arr(<<>>)), Obj(Arr(<<Str(Title(1)), Num(7)>>))}
    \cup {Obj(Arr(BookList(n))) : n \in 1..MaxBooks}

Keys == {"ArrowDown", "ArrowUp", "Enter", "Escape", "a"}

\* ---------------------------------------------------------------- the list
clearSuggestions ==
    /\ rows' = <<>>
    /\ shown' = FALSE
    /\ activeRows' = {}
    /\ activeIndex' = NoSelection
    /\ suggestionList' = <<>>

\* books.map(...) calls escapeHtml on every element: value.replace is not a
\* function unless the element is a string
RenderThrows(books) ==
    /\ IsArray(books)
    /\ \E k \in 1..Len(books.items) : books.items[k].type # "string"

\* the <li> the template literal builds for books[index]
RowMarkup(book, index) == [dataIndex |-> index, html |-> escapeHtml(book.s)]

renderKeepIndex(books) ==
    IF ~IsArray(books) \/ Len(books.items) = 0
    THEN clearSuggestions
    ELSE /\ rows' = [k \in 1..Len(books.items) |-> RowMarkup(books.items[k], k - 1)]
         /\ shown' = TRUE
         /\ activeRows' = {}
         /\ activeIndex' = activeIndex
         /\ suggestionList' = [k \in 1..Len(books.items) |-> books.items[k].s]

renderSuggestions(books) ==
    IF ~IsArray(books) \/ Len(books.items) = 0
    THEN clearSuggestions
    ELSE /\ rows' = [k \in 1..Len(books.items) |-> RowMarkup(books.items[k], k - 1)]
         /\ shown' = TRUE
         /\ activeRows' = {}
         /\ activeIndex' = NoSelection
         /\ suggestionList' = [k \in 1..Len(books.items) |-> books.items[k].s]

\* items.forEach(... classList.toggle("active", index === activeIndex)), with
\* activeIndex already assigned; the result is the set of flagged positions
setActiveKeepPrior(items, prior, index) ==
    prior \cup {i \in 0..(Len(items) - 1) : i = index}

setActiveSuggestion(items, prior, index) ==
    {i \in 0..(Len(items) - 1) : i = index}

\* ------------------------------------------------------------- the request
\* controller.abort(): the request the controller belongs to, if its promise
\* chain has not settled, will reject with AbortError
AbortNothing(reqs, id) == reqs

AbortWhileFetching(reqs, id) ==
    {IF r.id = id /\ r.phase = "fetch" THEN [r EXCEPT !.aborted = TRUE] ELSE r : r \in reqs}

AbortInFlight(reqs, id) ==
    {IF r.id = id THEN [r EXCEPT !.aborted = TRUE] ELSE r : r \in reqs}

\* window.clearTimeout(debounceTimer)
ClearNothing(ts, id) == ts

ClearTimeout(ts, id) == {t \in ts : t.id # id}

\* the two statements in the other order: the new controller is aborted
fetchSuggestionsAbortNew(query) ==
    /\ requests' = requests \cup
                   {[id |-> nextReqId, query |-> query, aborted |-> TRUE, phase |-> "fetch"]}
    /\ controller' = nextReqId
    /\ nextReqId' = nextReqId + 1

\* fetchSuggestions up to its first await
fetchSuggestions(query) ==
    /\ requests' = AbortInFlight(requests, controller) \cup
                   {[id |-> nextReqId, query |-> query, aborted |-> FALSE, phase |-> "fetch"]}
    /\ controller' = nextReqId
    /\ nextReqId' = nextReqId + 1

\* fetchSuggestions from await fetch(...) to the next await or its end
AfterFetch(r, outcome) ==
    IF r.aborted THEN Throw("AbortError")
    ELSE IF outcome = "networkerror" THEN Throw("TypeError")
    ELSE IF outcome = "notok" THEN Return(Arr(<<>>))
    ELSE [kind |-> "await"]

\* fetchSuggestions from await response.json() to its end
AfterJson(r, body) ==
    IF r.aborted THEN Throw("AbortError")
    ELSE IF body = Unparseable THEN Throw("SyntaxError")
    ELSE IF body.type # "object" THEN Throw("TypeError")
    ELSE Return(IF Truthy(body.books) THEN body.books ELSE Arr(<<>>))

\* the try block of the debounced callback, once fetchSuggestions completed with c
TryBlock(c) ==
    IF c.kind = "return" /\ RenderThrows(c.value) THEN Throw("TypeError") ELSE c

\* catch (error) { if (error.name !== "AbortError") clearSuggestions() }
CatchClearsTypeError(e) == e.name = "TypeError"

CatchClearsAlways(e) == TRUE

CatchClears(e) == e.name # "AbortError"

\* the catch clause is unconditional: it takes every error of the try block
CatchTakes(e) == TRUE

\* the rest of the debounced callback, once fetchSuggestions completed with c
Complete(c) ==
    LET t == TryBlock(c) IN
    /\ IF t.kind = "return" THEN renderSuggestions(t.value)
       ELSE IF CatchTakes(t) /\ CatchClears(t) THEN clearSuggestions
       ELSE UNCHANGED dom
    /\ uncaught' = (uncaught \/ (t.kind = "throw" /\ ~CatchTakes(t)))

\* the values of lastEffect
NoEffect == [kind |-> "none", query |-> <<>>]
Dismissed(by) == [kind |-> by, query |-> <<>>]
AppliedFor(query) == [kind |-> "applied", query |-> query]

\* whether the debounced callback, fetchSuggestions having completed with c,
\* writes the list: it renders what was returned, or clears in the catch
Applies(c) ==
    LET t == TryBlock(c) IN
    t.kind = "return" \/ (CatchTakes(t) /\ CatchClears(t))

Init ==
    /\ inputValue = <<>>
    /\ rows = <<>>
    /\ shown = FALSE
    /\ activeRows = {}
    /\ activeIndex = NoSelection
    /\ debounceTimer = 0
    /\ controller = 0
    /\ timers = {}
    /\ requests = {}
    /\ nextTimerId = 1
    /\ nextReqId = 1
    /\ sinceLongInput = DebounceMs
    /\ lastQuery = <<>>
    /\ suggestionList = <<>>
    /\ prevented = FALSE
    /\ lastEffect = NoEffect
    /\ uncaught = FALSE

\* ----------------------------------------------------------------- handlers
\* the input's 'input' listener, the user having left v in the input
OnInput(v) ==
    LET query == Trim(v) IN
    /\ inputValue' = v
    /\ lastQuery' = query
    /\ lastEffect' = NoEffect
    /\ IF Len(query) < MinQueryLen
       THEN /\ clearSuggestions
            /\ UNCHANGED <<net, sinceLongInput>>
       ELSE /\ nextTimerId <= MaxTimers
            /\ timers' = ClearTimeout(timers, debounceTimer) \cup
                         {[id |-> nextTimerId, query |-> query, left |-> DebounceMs]}
            /\ debounceTimer' = nextTimerId
            /\ nextTimerId' = nextTimerId + 1
            /\ sinceLongInput' = 0
            /\ UNCHANGED <<dom, controller, requests, nextReqId>>
    /\ UNCHANGED <<prevented, uncaught>>

\* time passes: every armed timer comes TickMs closer to its expiry
Tick ==
    /\ \/ sinceLongInput < DebounceMs
       \/ \E t \in timers : t.left > 0
    /\ timers' = {[t EXCEPT !.left = Max(0, t.left - TickMs)] : t \in timers}
    /\ sinceLongInput' = Min(DebounceMs, sinceLongInput + TickMs)
    /\ UNCHANGED <<inputValue, dom, debounceTimer, controller, requests,
                   nextTimerId, nextReqId, lastQuery, prevented, lastEffect, uncaught>>

\* the host runs the callback of the expired timer t: the debounced callback
\* up to the await inside fetchSuggestions
TimerFire(t) ==
    /\ t \in timers
    /\ t.left = 0
    /\ nextReqId <= MaxRequests
    /\ timers' = timers \ {t}
    /\ fetchSuggestions(t.query)
    /\ UNCHANGED <<inputValue, dom, debounceTimer, nextTimerId, sinceLongInput,
                   lastQuery, prevented, lastEffect, uncaught>>

\* the promise of fetch settles for request r
FetchSettle(r, outcome) ==
    /\ r \in requests
    /\ r.phase = "fetch"
    /\ LET c == AfterFetch(r, outcome) IN
       IF c.kind = "await"
       THEN /\ requests' = (requests \ {r}) \cup {[r EXCEPT !.phase = "json"]}
            /\ UNCHANGED <<dom, lastEffect, uncaught>>
       ELSE /\ requests' = requests \ {r}
            /\ Complete(c)
            /\ lastEffect' = IF Applies(c) THEN AppliedFor(r.query) ELSE lastEffect
    /\ UNCHANGED <<inputValue, debounceTimer, controller, timers, nextTimerId,
                   nextReqId, sinceLongInput, lastQuery, prevented>>

\* the promise of response.json() settles for request r
JsonSettle(r, body) ==
    /\ r \in requests
    /\ r.phase = "json"
    /\ requests' = requests \ {r}
    /\ Complete(AfterJson(r, body))
    /\ lastEffect' = IF Applies(AfterJson(r, body)) THEN AppliedFor(r.query) ELSE lastEffect
    /\ UNCHANGED <<inputValue, debounceTimer, controller, timers, nextTimerId,
                   nextReqId, sinceLongInput, lastQuery, prevented>>

\* item.textContent || "" of the <li> at position index
CommitFirstRow(items, index) == TextContent(items[1].html)

CommitText(items, index) == TextContent(items[index + 1].html)

\* the list's 'mousedown' listener; target is the position of the <li> that
\* event.target.closest("li") finds, or -1 when it finds none
OnMouseDownNoClear(target) ==
    /\ shown
    /\ target \in -1..(Len(rows) - 1)
    /\ IF target = -1
       THEN UNCHANGED inputValue
       ELSE inputValue' = CommitText(rows, target)
    /\ UNCHANGED <<dom, lastEffect, net, sinceLongInput, lastQuery, prevented, uncaught>>

OnMouseDown(target) ==
    /\ shown
    /\ target \in -1..(Len(rows) - 1)
    /\ IF target = -1
       THEN UNCHANGED <<inputValue, dom, lastEffect>>
       ELSE /\ inputValue' = CommitText(rows, target)
            /\ clearSuggestions
            /\ lastEffect' = Dismissed("mouse")
    /\ UNCHANGED <<net, sinceLongInput, lastQuery, prevented, uncaught>>

\* the index ArrowDown and ArrowUp assign
ArrowDownNoWrap(index, n) == Min(index + 1, n - 1)

ArrowDownIndex(index, n) == JsRem(index + 1, n)

ArrowUpIndex(index, n) == JsRem(index - 1 + n, n)

\* whether the keydown listener calls event.preventDefault(): it returns
\* before any call when there are no items, and calls it in the ArrowDown and
\* ArrowUp branches and in the Enter branch, which needs activeIndex >= 0
PreventDefaultArrowsOnly(key, index, n) ==
    n # 0 /\ key \in {"ArrowDown", "ArrowUp"}

PreventDefault(key, index, n) ==
    /\ n # 0
    /\ \/ key = "ArrowDown"
       \/ key = "ArrowUp"
       \/ key = "Enter" /\ index >= 0

\* the input's 'keydown' listener
OnKeyDown(key) ==
    LET items == rows IN
    /\ prevented' = PreventDefault(key, activeIndex, Len(items))
    /\ IF Len(items) = 0
       THEN UNCHANGED <<inputValue, dom, lastEffect>>
       ELSE IF key = "ArrowDown"
       THEN /\ activeIndex' = ArrowDownIndex(activeIndex, Len(items))
            /\ activeRows' = setActiveSuggestion(items, activeRows, activeIndex')
            /\ UNCHANGED <<inputValue, rows, shown, suggestionList, lastEffect>>
       ELSE IF key = "ArrowUp"
       THEN /\ activeIndex' = ArrowUpIndex(activeIndex, Len(items))
            /\ activeRows' = setActiveSuggestion(items, activeRows, activeIndex')
            /\ UNCHANGED <<inputValue, rows, shown, suggestionList, lastEffect>>
       ELSE IF key = "Enter" /\ activeIndex >= 0
       THEN /\ inputValue' = CommitText(items, activeIndex)
            /\ clearSuggestions
            /\ lastEffect' = Dismissed("enter")
       ELSE IF key = "Escape"
       THEN /\ clearSuggestions
            /\ lastEffect' = Dismissed("escape")
            /\ UNCHANGED inputValue
       ELSE UNCHANGED <<inputValue, dom, lastEffect>>
    /\ UNCHANGED <<net, sinceLongInput, lastQuery, uncaught>>

\* the document's 'click' listener; inside tells whether the target has an
\* ancestor matching .recommend-form
OnDocumentClickInside(inside) ==
    /\ IF ~inside
       THEN UNCHANGED <<dom, lastEffect>>
       ELSE /\ clearSuggestions
            /\ lastEffect' = IF rows # <<>> THEN Dismissed("click") ELSE lastEffect
    /\ UNCHANGED <<inputValue, net, sinceLongInput, lastQuery, prevented, uncaught>>

OnDocumentClick(inside) ==
    /\ IF inside
       THEN UNCHANGED <<dom, lastEffect>>
       ELSE /\ clearSuggestions
            /\ lastEffect' = IF rows # <<>> THEN Dismissed("click") ELSE lastEffect
    /\ UNCHANGED <<inputValue, net, sinceLongInput, lastQuery, prevented, uncaught>>

Next ==
    \/ \E v \in InputValues : OnInput(v)
    \/ Tick
    \/ \E t \in timers : TimerFire(t)
    \/ \E r \in requests, outcome \in FetchOutcomes : FetchSettle(r, outcome)
    \/ \E r \in requests, body \in Bodies : JsonSettle(r, body)
    \/ \E target \in -1..(MaxBooks - 1) : OnMouseDown(target)
    \/ \E key \in Keys : OnKeyDown(key)
    \/ \E inside \in BOOLEAN : OnDocumentClick(inside)

Spec == Init /\ [][Next]_vars

\* ------------------------------------------------------- rendering alone
\* the characters of the suggestion strings rendered on their own: the five
\* that escapeHtml replaces, a letter, and the semicolon that ends an entity
Alphabet == {"&", "<", ">", "\"", "'", "a", ";"}

\* every string over Alphabet of at most n characters
Strings(n) == UNION {[1..m -> Alphabet] : m \in 0..n}

\* the arrays of strings handed to renderSuggestions: every string alone,
\* every pair of strings of at most one character, and the first n titles
RenderLists ==
    {<<s>> : s \in Strings(MaxStrLen)}
    \cup {<<s, t>> : s \in Strings(1), t \in Strings(1)}
    \cup {[k \in 1..n |-> Title(k)] : n \in 1..MaxRenderLen}

\* renderSuggestions(books) with books the array of the strings of list,
\* called on the closed dropdown (the call overwrites whatever was rendered)
RenderList(list) ==
    /\ ~shown
    /\ renderSuggestions(Arr([k \in 1..Len(list) |-> Str(list[k])]))
    /\ UNCHANGED <<inputValue, net, sinceLongInput, lastQuery, prevented, lastEffect,
                   uncaught>>

\* clearSuggestions() on the open dropdown
RenderClear ==
    /\ shown
    /\ clearSuggestions
    /\ UNCHANGED <<inputValue, net, sinceLongInput, lastQuery, prevented, lastEffect,
                   uncaught>>

RenderNext ==
    \/ \E list \in RenderLists : RenderList(list)
    \/ RenderClear

RenderSpec == Init /\ [][RenderNext]_vars

\* Time passes and the host runs the callback of every timer that has expired.
FairSpec ==
    /\ Spec
    /\ WF_vars(Tick)
    /\ WF_vars(\E t \in timers : TimerFire(t))

\* Moreover the transport settles the promises of every request: fetch
\* resolves or rejects, and response.json() resolves or rejects.
DeliverySpec ==
    /\ FairSpec
    /\ \A i \in 1..MaxRequests :
          /\ WF_vars(\E r \in requests, outcome \in FetchOutcomes :
                        r.id = i /\ FetchSettle(r, outcome))
          /\ WF_vars(\E r \in requests, body \in Bodies :
                        r.id = i /\ JsonSettle(r, body))

\* ------------------------------------------------------------------ claims
\* the id of the most recently issued request (0 before the first)
LatestIssued == nextReqId - 1

\* a step in which a promise of request r settles
SettleOf(r) ==
    \/ \E outcome \in FetchOutcomes : FetchSettle(r, outcome)
    \/ \E body \in Bodies : JsonSettle(r, body)

\* C1: no stale overwrite. A step in which a request other than the most
\* recently issued one settles (before or after the newer one does) leaves
\* the rows, the visibility, the flags and the index as they were; so only
\* the most recently issued request is ever rendered into the dropdown.
C1_NoStaleOverwrite ==
    [][\A r \in requests :
         (r.id # LatestIssued /\ SettleOf(r)) => UNCHANGED dom]_vars

\* C1's case: request 1 was superseded and is still unsettled while request 2
\* has settled and its books are shown.
C1_Witness ==
    /\ nextReqId = 3
    /\ \E r \in requests : r.id = 1 /\ r.aborted
    /\ ~(\E r \in requests : r.id = 2)
    /\ rows # <<>>

\* C2: short-query guard, as claimed. Once the most recent input event had a
\* trimmed query shorter than 2, no step issues a request and the dropdown
\* has no rows, until the next input event.
C2_ShortQueryGuard ==
    [][(Len(lastQuery') < MinQueryLen)
         => (nextReqId' = nextReqId /\ rows' = <<>>)]_vars

\* C3: debounce coalescing. At most one timer is armed; the callback that
\* runs belongs to the timer the last arming input event set, runs no sooner
\* than 180 ms after that event, carries that event's query whenever that
\* event is the most recent input event, and leaves no timer armed (so one
\* burst issues one request); and an armed timer leads to a request.
C3_DebounceCoalescing ==
    /\ Cardinality(timers) <= 1
    /\ [][/\ Cardinality(timers') <= 1
          /\ \A t \in timers : TimerFire(t) =>
                /\ t.id = debounceTimer
                /\ sinceLongInput >= DebounceMs
                /\ (Len(lastQuery) >= MinQueryLen => t.query = lastQuery)
                /\ timers' = {}
                /\ \E r \in requests' : r.id = nextReqId /\ r.query = t.query]_vars
    /\ (timers # {}) ~> (timers = {})

\* C3's case: a second input event re-armed the timer within the delay of the
\* first, and the one request issued carries the second event's query.
C3_Witness ==
    /\ nextTimerId = 3
    /\ nextReqId = 2
    /\ timers = {}
    /\ \E r \in requests : r.id = 1 /\ r.query = lastQuery /\ Len(lastQuery) >= MinQueryLen

\* requests issued, neither settled nor cancelled
Outstanding == {r \in requests : ~r.aborted}

\* C4: at most one request is outstanding in every reachable state.
C4_OneOutstanding == Cardinality(Outstanding) <= 1

\* C4's case: a request was issued while another was in flight.
C4_Witness ==
    /\ Cardinality(requests) >= 2
    /\ Cardinality(Outstanding) = 1

\* C5: ArrowUp, as claimed: with N >= 1 rows, from -1 to N-1 and from i to
\* (i-1+N) mod N.
C5_ArrowUp ==
    [][(OnKeyDown("ArrowUp") /\ Len(rows) >= 1) =>
         activeIndex' = IF activeIndex = NoSelection
                        THEN Len(rows) - 1
                        ELSE (activeIndex - 1 + Len(rows)) % Len(rows)]_vars

\* C6: ArrowDown with N >= 1 rows: from -1 to 0 and from i to (i+1) mod N.
C6_ArrowDown ==
    [][(OnKeyDown("ArrowDown") /\ Len(rows) >= 1) =>
         activeIndex' = IF activeIndex = NoSelection
                        THEN 0
                        ELSE (activeIndex + 1) % Len(rows)]_vars

\* C6's case: ArrowDown has acted on a list of three rows.
C6_Witness ==
    /\ Len(rows) = 3
    /\ activeIndex = 0
    /\ prevented

\* a step that renders a response or clears the list
RenderOrClearStep ==
    \/ \E r \in requests : ~r.aborted /\
          \/ \E outcome \in FetchOutcomes \ {"ok"} : FetchSettle(r, outcome)
          \/ \E body \in Bodies : JsonSettle(r, body)
    \/ \E v \in InputValues : Len(Trim(v)) < MinQueryLen /\ OnInput(v)
    \/ \E target \in 0..(Len(rows) - 1) : OnMouseDown(target)
    \/ OnKeyDown("Escape") /\ rows # <<>>
    \/ OnKeyDown("Enter") /\ rows # <<>> /\ activeIndex >= 0
    \/ OnDocumentClick(FALSE)

\* the index is -1 or the position of a row
IndexInRange == activeIndex \in NoSelection..(Len(rows) - 1)

\* C7: the index is always in [-1, N-1], N the number of rows, and it is -1
\* after every step that replaces the rows, renders or clears.
C7_IndexInvariant ==
    /\ IndexInRange
    /\ [][/\ IndexInRange'
          /\ (rows' # rows \/ RenderOrClearStep) => activeIndex' = NoSelection]_vars

\* C7's case: two requests have settled and a list of one row is shown,
\* freshly without a selection.
C7_Witness ==
    /\ Len(rows) = 1
    /\ activeIndex = NoSelection
    /\ nextReqId = 3
    /\ requests = {}

\* C8: Enter with rows and Selected(i) puts the i-th suggestion of the
\* rendered list into the input and empties the dropdown; with rows and no
\* selection it changes neither the input, the dropdown nor the index and
\* does not call preventDefault.
C8_EnterCommit ==
    [][(OnKeyDown("Enter") /\ rows # <<>>) =>
         IF activeIndex >= 0
         THEN /\ inputValue' = suggestionList[activeIndex + 1]
              /\ rows' = <<>>
              /\ ~shown'
              /\ activeIndex' = NoSelection
         ELSE /\ UNCHANGED <<inputValue, dom>>
              /\ ~prevented']_vars

\* C8's case: the text of the second suggestion, which holds a character
\* that is escaped in the markup, is in the input and the dropdown is empty.
C8_Witness ==
    /\ inputValue = Title(2)
    /\ rows = <<>>
    /\ prevented

InterceptedKeys == {"ArrowUp", "ArrowDown", "Enter"}

\* C9, as claimed: with rows, ArrowUp, ArrowDown and Enter (in every selection
\* state) call preventDefault; without rows no key is intercepted and nothing
\* of the widget changes.
C9_SuppressAlways ==
    [][\A key \in InterceptedKeys : OnKeyDown(key) =>
         IF rows # <<>> THEN prevented'
         ELSE ~prevented' /\ UNCHANGED <<inputValue, dom, net>>]_vars

\* C9, amended: with rows, ArrowUp and ArrowDown always call preventDefault
\* and Enter calls it exactly when a row is selected; without rows no key is
\* intercepted and nothing of the widget changes.
C9_SuppressWhenHandled ==
    [][\A key \in InterceptedKeys : OnKeyDown(key) =>
         IF rows # <<>>
         THEN prevented' = (key # "Enter" \/ activeIndex >= 0)
         ELSE ~prevented' /\ UNCHANGED <<inputValue, dom, net>>]_vars

\* C9's case: a key was intercepted while rows were shown and one is selected.
C9_Witness ==
    /\ rows # <<>>
    /\ activeIndex >= 0
    /\ prevented

\* the bodies that are neither a non-empty array of strings nor an empty array
FailureBodies ==
    {Unparseable, Null, Obj(Undefined), Obj(Null), Obj(Num(0)), Obj(Str(Title(1))),
     Obj(Arr(<<Str(Title(1)), Num(7)>>))}

\* a step in which the request r, not cancelled, ends in a failure
FailureOf(r) ==
    /\ ~r.aborted
    /\ \/ \E outcome \in {"notok", "networkerror"} : FetchSettle(r, outcome)
       \/ \E body \in FailureBodies : JsonSettle(r, body)

\* C10: fail-safe closed. When the latest request, not cancelled, ends in a
\* failure, the dropdown is cleared, no exception escapes the callback, and
\* the step is the one an empty books array would have made.
C10_FailSafeClosed ==
    [][\A r \in requests : (r.id = LatestIssued /\ FailureOf(r)) =>
         /\ rows' = <<>>
         /\ ~shown'
         /\ activeRows' = {}
         /\ activeIndex' = NoSelection
         /\ ~uncaught'
         /\ requests' = requests \ {r}
         /\ renderSuggestions(Arr(<<>>))
         /\ UNCHANGED <<inputValue, debounceTimer, controller, timers, nextTimerId,
                        nextReqId, sinceLongInput, lastQuery, prevented, uncaught>>]_vars

\* C10's case: rows of an earlier response are shown and the latest request,
\* not cancelled, awaits its body.
C10_Witness ==
    /\ rows # <<>>
    /\ activeIndex >= 0
    /\ \E r \in requests : r.id = LatestIssued /\ ~r.aborted /\ r.phase = "json"

\* C11: cancellation is a silent no-op. A step in which a promise of a
\* cancelled request settles leaves the rows, the visibility, the flags, the
\* index and the input's value as they were, and no error escapes.
C11_CancelledIsSilent ==
    [][\A r \in requests : (r.aborted /\ SettleOf(r)) =>
         /\ UNCHANGED <<inputValue, rows, shown, activeRows, activeIndex>>
         /\ requests' = requests \ {r}
         /\ ~uncaught']_vars

\* C11's case: a request was cancelled by a newer one and has not settled,
\* while rows are shown and one of them is selected.
C11_Witness ==
    /\ \E r \in requests : r.aborted
    /\ rows # <<>>
    /\ activeIndex >= 0
    /\ inputValue \in InputValues

\* C12: outside click. A click outside the form container, in any state,
\* leaves no rows, the list hidden and the index -1, and does not touch the
\* input's value, the timer or the requests; a click inside changes nothing.
C12_OutsideClick ==
    [][/\ OnDocumentClick(FALSE) =>
            /\ rows' = <<>>
            /\ ~shown'
            /\ activeRows' = {}
            /\ activeIndex' = NoSelection
            /\ UNCHANGED <<inputValue, net>>
       /\ OnDocumentClick(TRUE) => UNCHANGED vars]_vars

\* C12's case: an outside click was the last to write the list, after a
\* response had been received, and the typed value is still in the input.
C12_Witness ==
    /\ lastEffect = Dismissed("click")
    /\ nextReqId >= 2
    /\ rows = <<>>
    /\ Len(Trim(inputValue)) >= MinQueryLen

\* C13: mouse-press commit. A mouse press on row j, whatever the index, puts
\* the j-th suggestion into the input and empties the dropdown, leaving the
\* timer and the requests alone: the state Enter leaves from Selected(j). A
\* press on the list that hits no row changes nothing.
C13_MouseCommit ==
    [][/\ \A j \in 0..(Len(rows) - 1) : OnMouseDown(j) =>
            /\ inputValue' = suggestionList[j + 1]
            /\ rows' = <<>>
            /\ ~shown'
            /\ activeRows' = {}
            /\ activeIndex' = NoSelection
            /\ UNCHANGED net
       /\ OnMouseDown(-1) => UNCHANGED vars]_vars

\* C13's case: the third row was pressed and its text, which holds two
\* characters that are escaped in the markup, is in the input.
C13_Witness ==
    /\ lastEffect = Dismissed("mouse")
    /\ inputValue = Title(3)
    /\ rows = <<>>
    /\ activeIndex = NoSelection

Entities == {EntAmp, EntLt, EntGt, EntQuot, EntApos}

\* the markup h holds no raw <, >, " or ', and each & in it starts an entity
SafeMarkup(h) ==
    /\ \A i \in 1..Len(h) : h[i] \notin {"<", ">", "\"", "'"}
    /\ \A i \in 1..Len(h) : h[i] = "&" =>
          \E e \in Entities : SubSeq(h, i, i + Len(e) - 1) = e

\* C14: escaping. The markup rendered for every suggestion string holds none
\* of the raw characters <, >, " and ', and every & in it starts one of the
\* five entities.
C14_EscapedMarkup ==
    \A k \in 1..Len(rows) : SafeMarkup(rows[k].html)

\* C14's case: a string holding an ampersand, a tag opener and an apostrophe
\* was rendered.
C14_Witness ==
    /\ Len(rows) = 1
    /\ suggestionList = << <<"&", "<", "'">> >>

\* C15: render round trip. The rows read back are the strings rendered: as
\* many rows as strings, row k holding the text of string k and tagged k - 1.
C15_RenderRoundTrip ==
    /\ Len(rows) = Len(suggestionList)
    /\ \A k \in 1..Len(rows) :
          /\ TextContent(rows[k].html) = suggestionList[k]
          /\ rows[k].dataIndex = k - 1

\* C15's case: a list longer than the limit the request asks for was
\* rendered, and its last string holds characters that are escaped.
C15_Witness ==
    /\ Len(rows) > RequestLimit
    /\ suggestionList[Len(rows)] = Title(Len(rows))
    /\ shown

\* the length of s without its leading and trailing spaces, counted from
\* the positions of its first and last character that is not a space
TrimmedLength(s) ==
    LET solid == {i \in 1..Len(s) : s[i] # " "} IN
    IF solid = {} THEN 0
    ELSE (CHOOSE i \in solid : \A j \in solid : j <= i)
         - (CHOOSE i \in solid : \A j \in solid : j >= i) + 1

\* C16: every request issued, and every timer armed to issue one, carries a
\* query of trimmed length 2 or more that is the trimmed text itself.
C16_RequestsHaveLongQuery ==
    /\ \A r \in requests :
          TrimmedLength(r.query) >= MinQueryLen /\ Len(r.query) = TrimmedLength(r.query)
    /\ \A t \in timers :
          TrimmedLength(t.query) >= MinQueryLen /\ Len(t.query) = TrimmedLength(t.query)

\* C16's case: a request was issued for an input that had a leading space,
\* after an input of trimmed length 1 had been typed with spaces around it.
C16_Witness ==
    /\ \E r \in requests : r.query = <<"a", "b", "c">> /\ ~r.aborted
    /\ inputValue = <<" ", "a", " ">>

\* C17: active-row flag. Exactly the row at the index carries the active
\* flag when the index is 0 or more, and no row carries it when the index
\* is -1; so an arrow key leaves the flag on the new row only.
C17_ActiveFlag ==
    /\ activeRows \subseteq 0..(Len(rows) - 1)
    /\ activeRows = IF activeIndex >= 0 THEN {activeIndex} ELSE {}
    /\ Cardinality(activeRows) = IF activeIndex >= 0 THEN 1 ELSE 0

\* C17's case: the selection has moved to the last row of three, which
\* an arrow key reaches only from a row that carried the flag before.
C17_Witness ==
    /\ Len(rows) = 3
    /\ activeIndex = 2
    /\ activeRows = {2}
    /\ lastEffect.kind = "applied"

Dismissals == {"escape", "click", "enter", "mouse"}

\* C18: dismissal is stable, as claimed. Once Escape, an outside click or a
\* commit has emptied the dropdown, every step that is not an input event
\* leaves it empty.
C18_DismissalStable ==
    [][(lastEffect.kind \in Dismissals /\ lastEffect'.kind # "none") => rows' = <<>>]_vars

\* the strings a body makes the dropdown show: those of its books array when
\* that is an array of strings, none for every other body
ResponseBooks(body) ==
    IF /\ body.type = "object"
       /\ body.books.type = "array"
       /\ \A k \in 1..Len(body.books.items) : body.books.items[k].type = "string"
    THEN [k \in 1..Len(body.books.items) |-> body.books.items[k].s]
    ELSE <<>>

LongQueries == {Trim(v) : v \in {w \in InputValues : Len(Trim(w)) >= MinQueryLen}}

\* C19: eventual display. When a request that was not cancelled settles, the
\* dropdown shows exactly the books of its response (nothing for a failure or
\* an empty list) with the index -1; and from the state an input event with
\* a query q of trimmed length 2 or more leaves, unless an input event
\* changes the query, a response to q is eventually so displayed.
C19_EventualDisplay ==
    /\ [][\A r \in requests : ~r.aborted =>
            /\ \A body \in Bodies : JsonSettle(r, body) =>
                  /\ suggestionList' = ResponseBooks(body)
                  /\ Len(rows') = Len(suggestionList')
                  /\ shown' = (suggestionList' # <<>>)
                  /\ activeIndex' = NoSelection
                  /\ lastEffect' = AppliedFor(r.query)
            /\ \A outcome \in FetchOutcomes \ {"ok"} : FetchSettle(r, outcome) =>
                  /\ suggestionList' = <<>>
                  /\ rows' = <<>>
                  /\ ~shown'
                  /\ activeIndex' = NoSelection
                  /\ lastEffect' = AppliedFor(r.query)]_vars
    /\ \A q \in LongQueries :
          (lastQuery = q /\ lastEffect = NoEffect) ~>
              (lastQuery # q \/ (lastEffect = AppliedFor(q) /\ activeIndex = NoSelection))

\* C19's case: the response to the last query was the last to write the
\* list, three books are shown, nothing is selected and nothing is pending.
C19_Witness ==
    /\ Len(lastQuery) >= MinQueryLen
    /\ lastEffect = AppliedFor(lastQuery)
    /\ Len(rows) = 3
    /\ activeIndex = NoSelection
    /\ timers = {}
    /\ requests = {}

====
